---------------------------- MODULE Spec2Model ----------------------------
(***************************************************************************)
(* A model of the EV-scoring Lambda (acs-lambda/generate-ev).              *)
(*                                                                         *)
(* One invocation of lambda_handler is a sequence of steps; pc is the      *)
(* handler's position.  The two LLM clients (calc_ev, invoke_flag_llm),    *)
(* the rate limiters of db.py and the storage writes are modelled from     *)
(* their code; the LLM provider, DynamoDB and the collaborating Lambdas    *)
(* are the environment and answer nondeterministically.                    *)
(*                                                                         *)
(* Binding of calls.  The source files pass session_id to some callees and *)
(* not to others (calc_ev and invoke_flag_llm are called with a trailing   *)
(* session_id by the orchestrator, store_ai_invocation is called without   *)
(* one by the two LLM clients).  session_id is an opaque credential that   *)
(* no modelled body reads, so it is not a parameter of the model: a call   *)
(* is bound to the callee of that name, with the arguments the call site   *)
(* names.  The orchestrator uses invoke_flag_llm's result as one scalar    *)
(* (the decision) and get_email_chain's result as the chain.               *)
(*                                                                         *)
(* The rate limiters of db.py are also modelled on their own, step by     *)
(* step (SpecLimiter): concurrent invocations interleave at the calls on   *)
(* the counter table, the clock advances, and the table deletes items      *)
(* whose ttl has passed.                                                   *)
(*                                                                         *)
(* Text is a sequence of one-character strings, so that strip(), lower(),  *)
(* the digit pattern, int() and str() are computed, not assumed.           *)
(***************************************************************************)
EXTENDS Integers, Sequences, FiniteSets, TLC

VARIABLES
    pc,             \* position of the invocation in lambda_handler
    now,            \* int(time.time()), seconds
    event,          \* the parsed event of the current invocation
    chain,          \* result of get_email_chain
    attempt,        \* calc_ev: loop index of the next attempt
    scoreResps,     \* calc_ev: provider responses received, in order
    scorePayloads,  \* calc_ev: payloads sent, in order
    evScore,        \* calc_ev: returned ev_score
    tokenUsage,     \* calc_ev: returned token_usage
    flagResps,      \* invoke_flag_llm: provider responses received
    flagDecision,   \* invoke_flag_llm: returned decision
    flagUsage,      \* invoke_flag_llm: returned token_usage
    log,            \* side effects of the current invocation, in order
    thread,         \* the Threads item of the conversation
    conversation,   \* the Conversations item of the conversation
    invocations,    \* writes to the Invocations table, in order
    rlAws,          \* the RL_AWS item of the account
    rlAi,           \* the RL_AI item of the account
    limits,         \* rl_aws / rl_ai of the account's Users item
    result,         \* return value of calculate_ev_for_conversation
    response,       \* return value of lambda_handler
    limiter,        \* admission attempts on a counter: the workers' positions
                    \* in check_and_update_*_rate_limit, and the window so far
    accountEmail,   \* responseEmail of the account's Users item
    parsedMessages  \* parse_messages: the returned list

vars == <<pc, now, event, chain, attempt, scoreResps, scorePayloads,
          evScore, tokenUsage, flagResps, flagDecision, flagUsage, log,
          thread, conversation, invocations, rlAws, rlAi, limits, result,
          response, limiter, accountEmail,
          parsedMessages>>

-----------------------------------------------------------------------------
(* Bounds of the model *)

MaxLen == 2          \* longest completion text enumerated exhaustively
MaxLimit == 2        \* largest per-account rate limit
MaxChain == 2        \* most messages of a conversation
MaxTries == 3        \* most admission attempts in one window of a counter
MaxTicks == 2        \* most steps of the clock
MaxRecords == 3      \* most calls of store_ai_invocation for one conversation

(* Program constants *)

MaxAttempts == 2     \* for attempt in range(2)
ScoreLow == 0        \* max(0, ...)
ScoreHigh == 100     \* min(100, ev)
MaxDigits == 3       \* \d{1,3}
HttpOk == 200        \* response.status != 200
NoParse == -2        \* return -2
CallFailed == -3     \* return -3
NoChain == -1        \* return -1
WindowSeconds == 60  \* ttl_time_s = current_time_s + 60
ClockStep == WindowSeconds  \* the clock is observed once a window

-----------------------------------------------------------------------------
(* Text *)

Digits == {"0", "1", "2", "3", "4", "5", "6", "7", "8", "9"}
Whitespace == {" ", "\n", "\t"}

DigitVal(c) ==
    CASE c = "0" -> 0 [] c = "1" -> 1 [] c = "2" -> 2 [] c = "3" -> 3
      [] c = "4" -> 4 [] c = "5" -> 5 [] c = "6" -> 6 [] c = "7" -> 7
      [] c = "8" -> 8 [] c = "9" -> 9

DigitChar(d) ==
    CASE d = 0 -> "0" [] d = 1 -> "1" [] d = 2 -> "2" [] d = 3 -> "3"
      [] d = 4 -> "4" [] d = 5 -> "5" [] d = 6 -> "6" [] d = 7 -> "7"
      [] d = 8 -> "8" [] d = 9 -> "9"

RECURSIVE LStrip(_)
LStrip(s) ==
    IF s # <<>> /\ Head(s) \in Whitespace THEN LStrip(Tail(s)) ELSE s

RECURSIVE RStrip(_)
RStrip(s) ==
    IF s # <<>> /\ s[Len(s)] \in Whitespace
    THEN RStrip(SubSeq(s, 1, Len(s) - 1))
    ELSE s

\* str.strip()
Strip(s) == RStrip(LStrip(s))

\* re.fullmatch(r"\d{1,3}", s)
FullMatchDigits(s) ==
    /\ Len(s) >= 1
    /\ Len(s) <= MaxDigits
    /\ \A i \in 1..Len(s) : s[i] \in Digits

\* int(s) of a digit string
RECURSIVE ParseInt(_)
ParseInt(s) ==
    IF s = <<>> THEN 0
    ELSE 10 * ParseInt(SubSeq(s, 1, Len(s) - 1)) + DigitVal(s[Len(s)])

\* str(n) of an integer
RECURSIVE StrNat(_)
StrNat(n) ==
    IF n < 10 THEN <<DigitChar(n)>>
    ELSE StrNat(n \div 10) \o <<DigitChar(n % 10)>>

Str(n) == IF n < 0 THEN <<"-">> \o StrNat(-n) ELSE StrNat(n)

UpperLetters == <<"A", "B", "C", "D", "E", "F", "G", "H", "I", "J", "K", "L", "M",
                  "N", "O", "P", "Q", "R", "S", "T", "U", "V", "W", "X", "Y", "Z">>
LowerLetters == <<"a", "b", "c", "d", "e", "f", "g", "h", "i", "j", "k", "l", "m",
                  "n", "o", "p", "q", "r", "s", "t", "u", "v", "w", "x", "y", "z">>

LowerChar(c) ==
    IF \E i \in 1..Len(UpperLetters) : UpperLetters[i] = c
    THEN LowerLetters[CHOOSE i \in 1..Len(UpperLetters) : UpperLetters[i] = c]
    ELSE c

\* str.lower()
Lower(s) == [i \in 1..Len(s) |-> LowerChar(s[i])]

Min(a, b) == IF a < b THEN a ELSE b
Max(a, b) == IF a > b THEN a ELSE b

\* all sequences over S of length at most n
SeqsUpTo(S, n) == UNION {[1..k -> S] : k \in 0..n}


-----------------------------------------------------------------------------
(* The LLM provider's answers.  A response is what http.request gives the  *)
(* client: raised (no response at all), or a status and a body, the body   *)
(* being of one of these kinds:                                            *)
(*   "badjson"    not JSON                                                 *)
(*   "nochoices"  JSON without "choices"                                   *)
(*   "badchoices" "choices" without [0].message.content text               *)
(*   "ok"         a completion text and, possibly, a usage                 *)

NoUsage == [present |-> FALSE, prompt_tokens |-> 0, completion_tokens |-> 0]
Usages ==
    {NoUsage,
     [present |-> TRUE, prompt_tokens |-> 5, completion_tokens |-> 1],
     [present |-> TRUE, prompt_tokens |-> 9, completion_tokens |-> 2]}

Resp(k, st, c, u) == [kind |-> k, status |-> st, content |-> c, usage |-> u]

FailureResponses ==
    {Resp("exception", 0, <<>>, NoUsage),
     Resp("ok", 500, <<"4", "2">>, CHOOSE u \in Usages : u.prompt_tokens = 5),
     Resp("ok", 204, <<"f", "l", "a", "g">>, NoUsage),
     Resp("badjson", 502, <<>>, NoUsage),
     Resp("badjson", HttpOk, <<>>, NoUsage),
     Resp("nochoices", HttpOk, <<>>, NoUsage),
     Resp("badchoices", HttpOk, <<>>, NoUsage)}

OkResponses(contents, usages) ==
    {Resp("ok", HttpOk, c, u) : c \in contents, u \in usages}

ZeroUsage == [input_tokens |-> 0, output_tokens |-> 0]

\* response_data.get('usage', {}).get('prompt_tokens', 0), and completion_tokens
TokenUsageOf(r) ==
    IF r.usage.present
    THEN [input_tokens |-> r.usage.prompt_tokens,
          output_tokens |-> r.usage.completion_tokens]
    ELSE ZeroUsage

-----------------------------------------------------------------------------
(* Storage items *)

\* attribute values of an item: a string (S), a number (N), or no attribute
AttrS(s) == [type |-> "S", s |-> s, n |-> 0]
AttrN(n) == [type |-> "N", s |-> <<>>, n |-> n]
NoValue == [type |-> "none", s |-> <<>>, n |-> 0]
NoItem == [exists |-> FALSE, invocations |-> 0, ttl |-> 0]

ModelName == "meta-llama/Llama-4-Maverick-17B-128E-Instruct-FP8"

\* the item store_ai_invocation writes
InvocationRecord(kind, usage, t) ==
    [llm_email_type |-> kind, model_name |-> ModelName,
     input_tokens |-> usage.input_tokens, output_tokens |-> usage.output_tokens,
     timestamp |-> t]

-----------------------------------------------------------------------------
(* Scoring client: calc_ev *)

ScoreAlphabet == {"0", "1", "5", " ", "N"}

\* completions longer than MaxLen that the scoring claims name or border on
ScoreSamples ==
    {<<"1", "0", "0">>, <<"1", "5", "0">>, <<"9", "9", "9">>,
     <<"1", "0", "0", "0">>, <<"0", "1", "0", "0">>,
     <<" ", "4", "2", "\n">>, <<"\t", "1", "5", "0", " ">>,
     <<"N", "/", "A">>, <<"4", " ", "2">>, <<"-", "5">>, <<"4", "2", "%">>}

ScoreContents == SeqsUpTo(ScoreAlphabet, MaxLen) \cup ScoreSamples

ScoreResponses ==
    FailureResponses \cup OkResponses(ScoreContents, {NoUsage, CHOOSE u \in Usages : u.prompt_tokens = 5})

\* payload = {...}: built once, before the loop
ScorePayload(messages) ==
    [model |-> ModelName, messages |-> <<"score_system_prompt">> \o messages,
     max_tokens |-> 3, stop |-> <<"<|im_end|>", "<|endoftext|>">>]

\* Clamp without the upper limit
ClampLowerOnly(ev) == Max(ScoreLow, ev)

\* max(0, min(100, ev))
Clamp(ev) == Max(ScoreLow, Min(ScoreHigh, ev))

\* re.fullmatch(r"\d{1,3}", raw_content)
IsInteger(raw) == FullMatchDigits(raw)

\* StatusFails taking only the 5xx statuses for failures
StatusFailsServerError(r) == r.status >= 500

\* response.status != 200
StatusFails(r) == r.status # HttpOk

\* Usable without the test of the status
UsableAnyStatus(r) == r.kind = "ok"

(* Whether one answer gets calc_ev (or invoke_flag_llm) as far as reading  *)
(* the completion text: the request did not raise, the status is 200, the  *)
(* body is JSON with "choices" and the text can be read from it.           *)
Usable(r) ==
    /\ r.kind # "exception"
    /\ ~StatusFails(r)
    /\ r.kind = "ok"

\* ExhaustedCode reporting a failed call
ExhaustedAsCallFailed == CallFailed

\* the value returned after the loop: return -2, {...}
ExhaustedCode == NoParse

\* FailedCode reporting an unparseable completion
FailedAsNoParse == NoParse

\* the value returned on a bad status, a bad body or an exception: return -3, {...}
FailedCode == CallFailed

(* One pass of the loop body of calc_ev, the loop's exit included.  The     *)
(* invocation record is written by store_ai_invocation (db.py) before the  *)
(* return; stored is whether that write reaches the table (its result is   *)
(* not looked at).                                                         *)
ScoreAttempt(R) ==
    /\ pc = "score"
    /\ attempt < MaxAttempts
    /\ \E r \in R, stored \in BOOLEAN :
        LET raw == Strip(r.content)
            usage == TokenUsageOf(r)
            valid == Usable(r) /\ IsInteger(raw)
            retry == Usable(r) /\ ~IsInteger(raw)
            last == attempt + 1 >= MaxAttempts
        IN  /\ scoreResps' = Append(scoreResps, r)
            /\ scorePayloads' = Append(scorePayloads, ScorePayload(chain))
            /\ attempt' = attempt + 1
            /\ (~valid => ~stored)
            /\ IF valid
               THEN /\ evScore' = Clamp(ParseInt(raw))
                    /\ tokenUsage' = usage
                    /\ invocations' =
                         IF stored
                         THEN Append(invocations,
                                     InvocationRecord("ev_calculation", usage, now))
                         ELSE invocations
                    /\ log' = log \o <<"score_req">>
                                  \o (IF stored THEN <<"inv_ev_calculation">>
                                      ELSE <<"inv_ev_calculation_failed">>)
                    /\ pc' = "score_ret"
               ELSE /\ invocations' = invocations
                    /\ log' = Append(log, "score_req")
                    /\ tokenUsage' = ZeroUsage
                    /\ IF retry /\ ~last
                       THEN /\ evScore' = evScore
                            /\ pc' = "score"
                       ELSE /\ evScore' = IF retry THEN ExhaustedCode ELSE FailedCode
                            /\ pc' = "score_ret"
    /\ UNCHANGED <<accountEmail, parsedMessages, limiter, now, event, chain, flagResps, flagDecision, flagUsage,
                   thread, conversation, rlAws, rlAi, limits, result, response>>

-----------------------------------------------------------------------------
(* Rate limiters of db.py.  An admission is computed from the item read    *)
(* (row), the limit read (limit), the clock (t) and what the storage does  *)
(* (io: whether the Users item is found, and whether the read and the      *)
(* write of the counter succeed).  The result is whether the attempt is    *)
(* admitted, the message, and the item afterwards.                         *)

StorageOutcomes ==
    [user : {"found", "missing", "error"}, read : BOOLEAN, write : BOOLEAN]

Item(n, ttl) == [exists |-> TRUE, invocations |-> n, ttl |-> ttl]

\* get_user_rate_limits: 0 when the user is missing or the read fails
UserLimit(limit, io) == IF io.user = "found" THEN limit ELSE 0

\* current_invocations >= ai_limit
LimitExceeded(current, limit) == current >= limit

Admission(allowed, message, row) ==
    [allowed |-> allowed, message |-> message, row |-> row]

\* check_and_update_ai_rate_limit
CheckAndUpdateAiRateLimit(row, limit, t, io) ==
    LET ai_limit == UserLimit(limit, io)
    IN  IF ~io.read
        THEN Admission(FALSE, "Error checking AI rate limit", row)
        ELSE IF ~row.exists
        THEN IF io.write
             THEN Admission(TRUE, "", Item(1, t + WindowSeconds))
             ELSE Admission(FALSE, "Error checking AI rate limit", row)
        ELSE IF LimitExceeded(row.invocations, ai_limit)
        THEN Admission(FALSE, "AI rate limit exceeded", row)
        ELSE IF io.write
        THEN Admission(TRUE, "", Item(row.invocations + 1, row.ttl))
        ELSE Admission(FALSE, "Error checking AI rate limit", row)

\* check_and_update_aws_rate_limit
CheckAndUpdateAwsRateLimit(row, limit, t, io) ==
    LET aws_limit == UserLimit(limit, io)
    IN  IF ~io.read
        THEN Admission(FALSE, "Error checking AWS rate limit", row)
        ELSE IF ~row.exists
        THEN IF io.write
             THEN Admission(TRUE, "", Item(1, t + WindowSeconds))
             ELSE Admission(FALSE, "Error checking AWS rate limit", row)
        ELSE IF LimitExceeded(row.invocations, aws_limit)
        THEN Admission(FALSE, "AWS rate limit exceeded", row)
        ELSE IF io.write
        THEN Admission(TRUE, "", Item(row.invocations + 1, t + WindowSeconds))
        ELSE Admission(FALSE, "Error checking AWS rate limit", row)

-----------------------------------------------------------------------------
(* Admission attempts step by step.  check_and_update_*_rate_limit makes   *)
(* two calls on the counter table: get_item, then put_item or update_item. *)
(* Nothing holds the item between the two, so attempts of concurrent       *)
(* invocations interleave at these calls.  A worker is one invocation      *)
(* running one attempt at a time.  The item's ttl attribute is DynamoDB's  *)
(* time-to-live: the table deletes the item at some time after ttl has     *)
(* passed, and until then reads still return it.                           *)

Workers == {"w1", "w2"}
Kinds == {"aws", "ai"}

NoTtl == -1             \* an item written without a ttl attribute

IdleAttempt ==
    [pc |-> "idle", op |-> "none", current |-> 0, ttl |-> 0, outcome |-> "none",
     late |-> FALSE, crossed |-> FALSE, no |-> 0, began |-> 0,
     fault |-> FALSE]

(* A window of a counter: from the creation of its item to the item's      *)
(* deletion.  renewed: an earlier window of the counter has ended;         *)
(* carried: an attempt that read in an earlier window has written in this  *)
(* one.                                                                    *)
NewWindow(renewed) ==
    [renewed |-> renewed, attempts |-> 0, admitted |-> 0, overlapped |-> FALSE,
     faulted |-> FALSE, carried |-> FALSE]

NoLimiter ==
    [kind |-> "ai", att |-> [w \in Workers |-> IdleAttempt], win |-> NewWindow(FALSE)]

Counter(kind) == IF kind = "aws" THEN rlAws ELSE rlAi
LimitOf(kind) == IF kind = "aws" THEN limits.rl_aws ELSE limits.rl_ai

\* ttl has passed: the item is due for deletion
Expired(row, t) == row.exists /\ row.ttl # NoTtl /\ t > row.ttl

InFlight(a) == a.pc = "write"

\* Branch with no test of the count against the limit
BranchNeverDenies(row, limit, io) ==
    IF ~io.read THEN "error"
    ELSE IF ~row.exists THEN "put"
    ELSE "update"

\* what the attempt does after get_item: the branch of the code it takes
Branch(row, limit, io) ==
    IF ~io.read THEN "error"
    ELSE IF ~row.exists THEN "put"
    ELSE IF LimitExceeded(row.invocations, UserLimit(limit, io)) THEN "deny"
    ELSE "update"

\* UpdatedCount adding one to the count the table holds
UpdatedCountAtomic(current, row) == row.invocations + 1

\* ':val': current_invocations + 1, from the count this attempt read
UpdatedCount(current, row) == current + 1

\* the item after put_item: invocations 1, ttl one minute from now
PutItem(ttl) == Item(1, ttl)

(* The item after update_item.  RL_AWS: SET invocations, #ttl.  RL_AI: SET *)
(* invocations only, so ttl stays as it is; update_item on a key that is   *)
(* not there creates the item with the attributes it sets.                 *)
UpdateItem(kind, row, current, ttl) ==
    IF kind = "aws" THEN Item(UpdatedCount(current, row), ttl)
    ELSE IF row.exists THEN Item(UpdatedCount(current, row), row.ttl)
    ELSE Item(UpdatedCount(current, row), NoTtl)

SetCounter(kind, row) ==
    /\ rlAws' = IF kind = "aws" THEN row ELSE rlAws
    /\ rlAi' = IF kind = "aws" THEN rlAi ELSE row

(* The attempt up to and including get_item: the clock is read, the limit  *)
(* is read from the Users item, the counter item is read, and the branch   *)
(* is taken.  A denial and a failed read end the attempt here.  began is   *)
(* the time of the attempt, kept until its write; fault is whether a       *)
(* storage call of the attempt has raised.                                 *)
ReadCounter(w) ==
    /\ limiter.att[w].pc \in {"idle", "done"}
    /\ limiter.win.attempts < MaxTries
    /\ \E io \in StorageOutcomes :
        /\ io.write
        /\ LET kind == limiter.kind
               row == Counter(kind)
               branch == Branch(row, LimitOf(kind), io)
               others == \E v \in Workers \ {w} : InFlight(limiter.att[v])
               a == [pc |-> IF branch \in {"put", "update"} THEN "write" ELSE "done",
                     op |-> branch,
                     current |-> IF branch = "update" THEN row.invocations ELSE 0,
                     ttl |-> IF kind = "aws" /\ branch \in {"put", "update"}
                             THEN now + WindowSeconds ELSE 0,
                     outcome |-> IF branch = "deny" THEN "denied"
                                 ELSE IF branch = "error" THEN "error" ELSE "none",
                     late |-> Expired(row, now) \/ (~row.exists /\ limiter.win.renewed),
                     crossed |-> FALSE,
                     no |-> limiter.win.attempts + 1,
                     began |-> IF branch \in {"put", "update"} THEN now ELSE 0,
                     fault |-> branch = "error" \/ io.user = "error"]
           IN  limiter' = [limiter EXCEPT
                   !.att[w] = a,
                   !.win.attempts = @ + 1,
                   !.win.overlapped = @ \/ others,
                   !.win.faulted = @ \/ branch = "error" \/ io.user # "found"]
    /\ UNCHANGED <<accountEmail, parsedMessages, pc, now, event, chain, attempt, scoreResps, scorePayloads,
                   evScore, tokenUsage, flagResps, flagDecision, flagUsage, log,
                   thread, conversation, invocations, rlAws, rlAi, limits,
                   result, response>>

(* The attempt's write: put_item when get_item found no item, update_item  *)
(* otherwise.  RL_AWS takes the ttl computed when the attempt began; RL_AI *)
(* computes it just before put_item.  A write that raises ends the attempt *)
(* with (False, "Error checking ... rate limit").                          *)
WriteCounter(w) ==
    /\ limiter.att[w].pc = "write"
    /\ \E ok \in BOOLEAN :
        LET kind == limiter.kind
            a == limiter.att[w]
            row == Counter(kind)
            ttl == IF kind = "aws" THEN a.ttl ELSE now + WindowSeconds
            written == IF a.op = "put" THEN PutItem(ttl)
                       ELSE UpdateItem(kind, row, a.current, ttl)
        IN  /\ SetCounter(kind, IF ok THEN written ELSE row)
            /\ limiter' = [limiter EXCEPT
                   !.att[w].pc = "done",
                   !.att[w].ttl = 0,
                   !.att[w].began = 0,
                   !.att[w].fault = @ \/ ~ok,
                   !.att[w].outcome = IF ok THEN "admitted" ELSE "error",
                   !.win.admitted = IF ok THEN @ + 1 ELSE @,
                   !.win.carried = @ \/ (ok /\ a.crossed),
                   !.win.faulted = @ \/ ~ok]
    /\ UNCHANGED <<accountEmail, parsedMessages, pc, now, event, chain, attempt, scoreResps, scorePayloads,
                   evScore, tokenUsage, flagResps, flagDecision, flagUsage, log,
                   thread, conversation, invocations, limits, result, response>>

\* time passes
Tick ==
    /\ now < MaxTicks * ClockStep
    /\ now' = now + ClockStep
    /\ UNCHANGED <<accountEmail, parsedMessages, limiter, pc, event, chain, attempt, scoreResps, scorePayloads,
                   evScore, tokenUsage, flagResps, flagDecision, flagUsage, log,
                   thread, conversation, invocations, rlAws, rlAi, limits,
                   result, response>>

(* The table deletes an item whose ttl has passed, and a new window can    *)
(* begin.  Attempts that ended in the old window are forgotten; those      *)
(* between their read and their write go on (crossed).                     *)
ExpireItem ==
    /\ Expired(Counter(limiter.kind), now)
    /\ SetCounter(limiter.kind, NoItem)
    /\ limiter' = [limiter EXCEPT
           !.win = [NewWindow(TRUE) EXCEPT
                      !.overlapped = \E w \in Workers : InFlight(limiter.att[w])],
           !.att = [w \in Workers |->
                      IF InFlight(@[w]) THEN [@[w] EXCEPT !.crossed = TRUE]
                      ELSE IdleAttempt]]
    /\ UNCHANGED <<accountEmail, parsedMessages, pc, now, event, chain, attempt, scoreResps, scorePayloads,
                   evScore, tokenUsage, flagResps, flagDecision, flagUsage, log,
                   thread, conversation, invocations, limits, result, response>>

-----------------------------------------------------------------------------
(* Flag client: invoke_flag_llm *)

FlagCases ==
    {<<a, b, c, d>> : a \in {"f", "F"}, b \in {"l", "L"},
                      c \in {"a", "A"}, d \in {"g", "G"}}

FlagOthers ==
    {<<>>, <<"f", "a", "l", "s", "e">>, <<"F", "a", "l", "s", "e">>,
     <<"f", "l", "a", "g", "s">>, <<"f", "l", "a">>, <<"f", " ", "l", "a", "g">>,
     <<"o", "k">>, <<"f", "l", "a", "g", ".">>, <<"t", "r", "u", "e">>,
     <<"n", "o", " ", "f", "l", "a", "g">>}

Pads == {<<>>, <<" ">>, <<"\n">>, <<"\t", " ">>}

FlagContents ==
    {p \o w \o q : p \in Pads, q \in Pads, w \in FlagCases \cup FlagOthers}

FlagResponses == FailureResponses \cup OkResponses(FlagContents, Usages)

FlagToken == <<"f", "l", "a", "g">>

\* ResponseText without lower()
ResponseTextNotLowered(r) == Strip(r.content)

\* response_data["choices"][0]["message"]["content"].strip().lower()
ResponseText(r) == Lower(Strip(r.content))

\* response_text == "flag"
IsFlag(text) == text = FlagToken

\* "messages": [system_prompt, user_message], the conversation formatted into it
FlagPayload(messages) ==
    [model |-> ModelName, messages |-> <<"flag_system_prompt">> \o messages,
     max_tokens |-> 5, stop |-> <<"\n", ".", " ", ",">>]

(* The whole of invoke_flag_llm: the AI rate-limit admission, then at most *)
(* one request, the invocation record, and the decision.  Every failure    *)
(* returns (False, zero usage).                                            *)
FlagCall(R) ==
    /\ pc = "flag"
    /\ \E io \in StorageOutcomes, r \in R, stored \in BOOLEAN :
        LET adm == CheckAndUpdateAiRateLimit(rlAi, limits.rl_ai, now, io)
            usage == TokenUsageOf(r)
            good == adm.allowed /\ Usable(r)
        IN  /\ rlAi' = adm.row
            /\ (~adm.allowed => r = CHOOSE x \in R : TRUE)
            /\ (~good => ~stored)
            /\ flagResps' = IF adm.allowed THEN Append(flagResps, r) ELSE flagResps
            /\ flagDecision' = IF good THEN IsFlag(ResponseText(r)) ELSE FALSE
            /\ flagUsage' = IF good THEN usage ELSE ZeroUsage
            /\ invocations' =
                 IF good /\ stored
                 THEN Append(invocations, InvocationRecord("flag", usage, now))
                 ELSE invocations
            /\ log' = log \o <<IF adm.allowed THEN "ai_admit" ELSE "ai_deny">>
                          \o (IF adm.allowed THEN <<"flag_req">> ELSE <<>>)
                          \o (IF good /\ stored THEN <<"inv_flag">>
                              ELSE IF good THEN <<"inv_flag_failed">> ELSE <<>>)
            /\ pc' = "flag_ret"
    /\ UNCHANGED <<accountEmail, parsedMessages, limiter, now, event, chain, attempt, scoreResps, scorePayloads,
                   evScore, tokenUsage, thread, conversation, rlAws, limits,
                   result, response>>

-----------------------------------------------------------------------------
(* Conversations *)

Message(sender, body, ts) ==
    [subject |-> "Re: listing", body |-> body, sender |-> sender,
     timestamp |-> ts, type |-> "email"]

Messages ==
    {Message("realtor@x.com", "b1", 1), Message("buyer@y.com", "b2", 2),
     Message("buyer@y.com", "b3", 3)}

\* the items a select on Conversations can return, in any order, without repeats
SelectResults ==
    {q \in SeqsUpTo(Messages, MaxChain) :
        \A i, j \in 1..Len(q) : i # j => q[i] # q[j]}

\* sorted(result, key=lambda x: x.get('timestamp', '')): a stable insertion sort
RECURSIVE InsertByTimestamp(_, _)
InsertByTimestamp(m, q) ==
    IF q = <<>> THEN <<m>>
    ELSE IF Head(q).timestamp <= m.timestamp
         THEN <<Head(q)>> \o InsertByTimestamp(m, Tail(q))
         ELSE <<m>> \o q

RECURSIVE SortByTimestamp(_)
SortByTimestamp(q) ==
    IF q = <<>> THEN <<>>
    ELSE InsertByTimestamp(q[Len(q)], SortByTimestamp(SubSeq(q, 1, Len(q) - 1)))

-----------------------------------------------------------------------------
(* Entry point: lambda_handler, and calculate_ev_for_conversation          *)

\* get_account_email: the responseEmail of the account, or nothing (None)
RegisteredEmail == <<"a", "@", "x">>
NoEmail == <<>>
AccountEmails == {NoEmail, RegisteredEmail}

AuthBp == "bypass-token"    \* AUTH_BP, as configured

Events ==
    [conversation_id : {"", "c1"}, account_id : {"", "a1"},
     session_id : {"", "s1", AuthBp}]

NoEvent == [conversation_id |-> "", account_id |-> "", session_id |-> ""]

NoResult == [ev_score |-> 0, token_usage |-> ZeroUsage]
NoResponse ==
    [statusCode |-> 0, status |-> "", scored |-> FALSE, ev_score |-> 0, error |-> ""]

\* ErrorResponse with a body that has no status field
ErrorResponseNoStatus(code, message) ==
    [statusCode |-> code, status |-> "", scored |-> FALSE, ev_score |-> 0,
     error |-> message]

ErrorResponse(code, message) ==
    [statusCode |-> code, status |-> "error", scored |-> FALSE, ev_score |-> 0,
     error |-> message]

\* ResultResponse with 'status': 'success' whatever the score
ResultResponseAlwaysSuccess(ev_score) ==
    [statusCode |-> IF ev_score >= 0 THEN 200 ELSE 500,
     status |-> "success", scored |-> TRUE, ev_score |-> ev_score, error |-> ""]

(* status_code = 200 if ev_score >= 0 else 500, and the 'status' of the    *)
(* body; scored: the body carries ev_score and token_usage.                *)
ResultResponse(ev_score) ==
    [statusCode |-> IF ev_score >= 0 THEN 200 ELSE 500,
     status |-> IF ev_score >= 0 THEN "success" ELSE "error",
     scored |-> TRUE, ev_score |-> ev_score, error |-> ""]

\* the provider's answers the pipeline is run against
PipelineScoreResponses ==
    {Resp("exception", 0, <<>>, NoUsage),
     Resp("ok", 500, <<"4", "2">>, NoUsage),
     Resp("ok", HttpOk, <<"4", "2">>, CHOOSE u \in Usages : u.prompt_tokens = 5),
     Resp("ok", HttpOk, <<"1", "5", "0">>, NoUsage),
     Resp("ok", HttpOk, <<"N", "/", "A">>, CHOOSE u \in Usages : u.prompt_tokens = 5)}

PipelineFlagResponses ==
    {Resp("exception", 0, <<>>, NoUsage),
     Resp("nochoices", HttpOk, <<>>, NoUsage),
     Resp("ok", HttpOk, <<"F", "l", "a", "g", "\n">>, CHOOSE u \in Usages : u.prompt_tokens = 9),
     Resp("ok", HttpOk, <<"o", "k">>, CHOOSE u \in Usages : u.prompt_tokens = 9)}

\* MissingFields not looking at session_id
MissingFieldsButSession(e) == e.conversation_id = "" \/ e.account_id = ""

\* not all([conversation_id, account_id, session_id])
MissingFields(e) ==
    e.conversation_id = "" \/ e.account_id = "" \/ e.session_id = ""

(* lambda_handler up to the validation of the fields: parse_event raises   *)
(* (status 500 from the outer handler) or gives the fields.                *)
Invoke ==
    /\ pc = "idle"
    /\ \E parsed \in BOOLEAN, e \in Events :
        /\ (~parsed => e = NoEvent)
        /\ event' = e
        /\ IF ~parsed
           THEN /\ response' = ErrorResponse(500, "Failed to parse event.")
                /\ pc' = "done"
           ELSE IF MissingFields(e)
           THEN /\ response' = ErrorResponse(400, "Missing required fields")
                /\ pc' = "done"
           ELSE /\ response' = response
                /\ pc' = "auth"
    /\ UNCHANGED <<accountEmail, parsedMessages, limiter, now, chain, attempt, scoreResps, scorePayloads, evScore,
                   tokenUsage, flagResps, flagDecision, flagUsage, log, thread,
                   conversation, invocations, rlAws, rlAi, limits, result>>

\* NeedsAuthorization for every session
NeedsAuthorizationAlways(session_id) == TRUE

\* if session_id != AUTH_BP
NeedsAuthorization(session_id) == session_id # AuthBp

(* What utils.authorize raises: LambdaError(statusCode, message) when the  *)
(* Authorize function does not answer 200 with authorized, and LambdaError *)
(* (500, ...) from invoke_lambda when the function cannot be invoked.      *)
AuthorizeRaises(outcome) ==
    IF outcome = "ok" THEN [class |-> "none", message |-> ""]
    ELSE IF outcome = "denied"
    THEN [class |-> "LambdaError", message |-> "[401] ACS: Unauthorized"]
    ELSE [class |-> "LambdaError", message |-> "[500] Failed to invoke Authorize"]

(* except AuthorizationError as e: the clause takes the exceptions of that *)
(* class.  utils.py defines LambdaError only, a subclass of Exception, so  *)
(* what authorize raises goes to the clause after it, except Exception.    *)
CaughtAsAuthorizationError(exc) == exc.class = "AuthorizationError"

(* if session_id != AUTH_BP: authorize(account_id, session_id), with its   *)
(* two except clauses                                                      *)
Authorize ==
    /\ pc = "auth"
    /\ \E outcome \in {"ok", "denied", "error"} :
        LET needed == NeedsAuthorization(event.session_id)
            exc == AuthorizeRaises(outcome)
        IN  /\ (~needed => outcome = "ok")
            /\ log' = log \o (IF needed THEN <<"authorize">> ELSE <<>>)
                          \o (IF outcome = "denied" THEN <<"authorize_denied">>
                              ELSE <<>>)
            /\ IF exc.class = "none"
               THEN /\ response' = response
                    /\ pc' = "aws_rl"
               ELSE /\ response' = IF CaughtAsAuthorizationError(exc)
                                    THEN ErrorResponse(401, exc.message)
                                    ELSE ErrorResponse(500, exc.message)
                    /\ pc' = "done"
    /\ UNCHANGED <<accountEmail, parsedMessages, limiter, now, event, chain, attempt, scoreResps, scorePayloads, evScore,
                   tokenUsage, flagResps, flagDecision, flagUsage, thread,
                   conversation, invocations, rlAws, rlAi, limits, result>>

\* IsAllowed letting every answer through
IsAllowedAlways(answer) == TRUE

\* if not is_allowed: the function answered 200 with is_allowed
IsAllowed(answer) == answer = "allowed"

(* check_aws_rate_limit: one invocation of the rate-limit-aws function     *)
(* with action 'check'; its answer is the environment's.                   *)
CheckAwsRateLimit ==
    /\ pc = "aws_rl"
    /\ \E answer \in {"allowed", "denied", "failed"} :
        /\ log' = log \o <<"aws_check">>
                      \o (IF answer = "denied" THEN <<"aws_denied">> ELSE <<>>)
        /\ IF IsAllowed(answer)
           THEN /\ response' = response
                /\ pc' = "fetch"
           ELSE /\ response' = ErrorResponse(429,
                                 IF answer = "denied" THEN "Rate limit exceeded"
                                 ELSE "Rate limit check failed")
                /\ pc' = "done"
    /\ UNCHANGED <<accountEmail, parsedMessages, limiter, now, event, chain, attempt, scoreResps, scorePayloads, evScore,
                   tokenUsage, flagResps, flagDecision, flagUsage, thread,
                   conversation, invocations, rlAws, rlAi, limits, result>>

\* ChainMissing never seeing an empty chain
ChainNeverMissing(c) == FALSE

\* if not chain
ChainMissing(c) == c = <<>>

(* get_email_chain and the test of its result: the select raises (the      *)
(* outer handler answers 500), gives something that is no list (an empty   *)
(* chain), or gives the items, which are sorted by timestamp.              *)
FetchChain ==
    /\ pc = "fetch"
    /\ \E outcome \in {"raised", "notalist", "list"}, items \in SelectResults :
        /\ (outcome # "list" => items = <<>>)
        /\ log' = Append(log, "fetch")
        /\ chain' = SortByTimestamp(items)
        /\ IF outcome = "raised"
           THEN /\ response' = ErrorResponse(500, "DB select failed.")
                /\ result' = result
                /\ pc' = "done"
           ELSE IF ChainMissing(chain')
           THEN /\ result' = [ev_score |-> NoChain, token_usage |-> ZeroUsage]
                /\ response' = response
                /\ pc' = "respond"
           ELSE /\ result' = result
                /\ response' = response
                /\ pc' = "score"
    /\ UNCHANGED <<accountEmail, parsedMessages, limiter, now, event, attempt, scoreResps, scorePayloads, evScore,
                   tokenUsage, flagResps, flagDecision, flagUsage, thread,
                   conversation, invocations, rlAws, rlAi, limits>>

\* ScoreFailed taking only -3 for a failure
ScoreFailedOnlyCallFailed(ev_score) == ev_score < -2

\* if ev_score < 0: return ev_score, token_usage
ScoreFailed(ev_score) == ev_score < 0

ScoreReturn ==
    /\ pc = "score_ret"
    /\ IF ScoreFailed(evScore)
       THEN /\ result' = [ev_score |-> evScore, token_usage |-> tokenUsage]
            /\ pc' = "respond"
       ELSE /\ result' = result
            /\ pc' = "flag"
    /\ UNCHANGED <<accountEmail, parsedMessages, limiter, now, event, chain, attempt, scoreResps, scorePayloads, evScore,
                   tokenUsage, flagResps, flagDecision, flagUsage, log, thread,
                   conversation, invocations, rlAws, rlAi, limits, response>>

\* flag_decision as the integer Python compares with 0: False is 0, True is 1
FlagCode(decision) == IF decision THEN 1 ELSE 0

\* FlagFailed taking a decision of False for a failure
FlagFailedWhenNotFlagged(decision) == FlagCode(decision) <= 0

\* if flag_decision < 0: return flag_decision, token_usage
FlagFailed(decision) == FlagCode(decision) < 0

FlagReturn ==
    /\ pc = "flag_ret"
    /\ IF FlagFailed(flagDecision)
       THEN /\ result' = [ev_score |-> FlagCode(flagDecision),
                          token_usage |-> tokenUsage]
            /\ pc' = "respond"
       ELSE /\ result' = result
            /\ pc' = "thread"
    /\ UNCHANGED <<accountEmail, parsedMessages, limiter, now, event, chain, attempt, scoreResps, scorePayloads, evScore,
                   tokenUsage, flagResps, flagDecision, flagUsage, log, thread,
                   conversation, invocations, rlAws, rlAi, limits, response>>

\* StorageFailed taken for a score
StorageFailedAsScore == ScoreLow

\* return -1, token_usage
StorageFailed == -1

\* ThreadUpdate setting updated_at as well, as update_thread_ev of db.py does
ThreadUpdateWithTimestamp(item, ev_score, should_flag) ==
    [item EXCEPT !.flag = should_flag, !.ev_score = AttrS(Str(ev_score)),
                 !.updated_at = AttrN(now)]

\* update_thread_ev: SET #flag = :flag, ev_score = :ev, with :ev = str(ev_score)
ThreadUpdate(item, ev_score, should_flag) ==
    [item EXCEPT !.flag = should_flag, !.ev_score = AttrS(Str(ev_score))]

UpdateThreadEv ==
    /\ pc = "thread"
    /\ \E ok \in BOOLEAN :
        IF ok
        THEN /\ thread' = ThreadUpdate(thread, evScore, flagDecision)
             /\ log' = Append(log, "thread_write")
             /\ result' = result
             /\ pc' = "conversation"
        ELSE /\ thread' = thread
             /\ log' = Append(log, "thread_write_failed")
             /\ result' = [ev_score |-> StorageFailed, token_usage |-> tokenUsage]
             /\ pc' = "respond"
    /\ UNCHANGED <<accountEmail, parsedMessages, limiter, now, event, chain, attempt, scoreResps, scorePayloads, evScore,
                   tokenUsage, flagResps, flagDecision, flagUsage, conversation,
                   invocations, rlAws, rlAi, limits, response>>

\* update_conversation_ev: SET ev_score = :ev, with :ev = str(ev_score)
ConversationUpdate(item, ev_score) ==
    [item EXCEPT !.ev_score = AttrS(Str(ev_score))]

UpdateConversationEv ==
    /\ pc = "conversation"
    /\ \E ok \in BOOLEAN :
        IF ok
        THEN /\ conversation' = ConversationUpdate(conversation, evScore)
             /\ log' = Append(log, "conversation_write")
             /\ result' = result
             /\ pc' = "record_ev"
        ELSE /\ conversation' = conversation
             /\ log' = Append(log, "conversation_write_failed")
             /\ result' = [ev_score |-> StorageFailed, token_usage |-> tokenUsage]
             /\ pc' = "respond"
    /\ UNCHANGED <<accountEmail, parsedMessages, limiter, now, event, chain, attempt, scoreResps, scorePayloads, evScore,
                   tokenUsage, flagResps, flagDecision, flagUsage, thread,
                   invocations, rlAws, rlAi, limits, response>>

\* AfterFailedRecord ending the run
AfterFailedRecordEnds(next) == "respond"

\* if not store_ai_invocation(...): logger.error(...), and the run goes on
AfterFailedRecord(next) == next

(* The two store_ai_invocation calls of calculate_ev_for_conversation,     *)
(* both given token_usage, the scoring call's usage; a failed write is     *)
(* logged and the run goes on.                                             *)
RecordUsage(kind, next) ==
    /\ \E ok \in BOOLEAN :
        /\ invocations' =
             IF ok THEN Append(invocations, InvocationRecord(kind, tokenUsage, now))
             ELSE invocations
        /\ log' = Append(log, IF ok THEN "inv_" \o kind
                              ELSE "inv_" \o kind \o "_failed")
        /\ pc' = IF ok THEN next ELSE AfterFailedRecord(next)
    /\ UNCHANGED <<accountEmail, parsedMessages, limiter, now, event, chain, attempt, scoreResps, scorePayloads, evScore,
                   tokenUsage, flagResps, flagDecision, flagUsage, thread,
                   conversation, rlAws, rlAi, limits, response>>

RecordEv ==
    /\ pc = "record_ev"
    /\ RecordUsage("ev_calculation", "record_flag")
    /\ result' = result

RecordFlag ==
    /\ pc = "record_flag"
    /\ RecordUsage("flag", "respond")
    /\ result' = [ev_score |-> evScore, token_usage |-> tokenUsage]

\* the response lambda_handler builds from (ev_score, token_usage)
Respond ==
    /\ pc = "respond"
    /\ response' = ResultResponse(result.ev_score)
    /\ pc' = "done"
    /\ UNCHANGED <<accountEmail, parsedMessages, limiter, now, event, chain, attempt, scoreResps, scorePayloads, evScore,
                   tokenUsage, flagResps, flagDecision, flagUsage, log, thread,
                   conversation, invocations, rlAws, rlAi, limits, result>>

-----------------------------------------------------------------------------
(* The Invocations table, as store_ai_invocation of db.py writes it *)

\* invocation_id = f"{conversation_id}_{timestamp}_{llm_email_type}"
InvocationId(conversation_id, rec) ==
    <<conversation_id, rec.timestamp, rec.llm_email_type>>

(* The items of the table after the writes: update(table_name=             *)
(* 'Invocations', key_name='invocation_id', key_value=invocation_id,       *)
(* update_data=...) sets the attributes of the item of that key, so of the *)
(* writes with one key the last is what the table holds.                   *)
InvocationsTable(conversation_id, writes) ==
    LET ids == {InvocationId(conversation_id, writes[i]) : i \in 1..Len(writes)}
        last(id) == CHOOSE i \in 1..Len(writes) :
                        /\ InvocationId(conversation_id, writes[i]) = id
                        /\ \A j \in (i + 1)..Len(writes) :
                               InvocationId(conversation_id, writes[j]) # id
    IN  [id \in ids |-> writes[last(id)]]

RecordKinds == {"ev_calculation", "flag"}

\* token usages of the calls that are recorded
RecordUsages == {TokenUsageOf([usage |-> u]) : u \in Usages}

(* One call of store_ai_invocation by calc_ev or invoke_flag_llm, in this  *)
(* invocation or a later one for the same conversation.                    *)
StoreAiInvocation ==
    /\ pc = "records"
    /\ Len(log) < MaxRecords
    /\ \E kind \in RecordKinds, usage \in RecordUsages, ok \in BOOLEAN :
        /\ invocations' =
             IF ok THEN Append(invocations, InvocationRecord(kind, usage, now))
             ELSE invocations
        /\ log' = Append(log, IF ok THEN "inv_" \o kind
                              ELSE "inv_" \o kind \o "_failed")
    /\ UNCHANGED <<accountEmail, parsedMessages, limiter, pc, now, event, chain,
                   attempt, scoreResps, scorePayloads, evScore, tokenUsage,
                   flagResps, flagDecision, flagUsage, thread, conversation,
                   rlAws, rlAi, limits, result, response>>

-----------------------------------------------------------------------------
(* Normalizer: parse_messages *)

RealtorTag == <<"R", "E", "A", "L", "T", "O", "R", ":", " ">>
BuyerTag == <<"B", "U", "Y", "E", "R", ":", " ">>

\* IsRealtor comparing the addresses without their case
IsRealtorIgnoringCase(sender, realtor_email) ==
    Lower(sender) = Lower(realtor_email)

\* email['sender'] == realtor_email
IsRealtor(sender, realtor_email) == sender = realtor_email

\* tag = "REALTOR: " if email['sender'] == realtor_email else "BUYER: "
Tag(sender, realtor_email) ==
    IF IsRealtor(sender, realtor_email) THEN RealtorTag ELSE BuyerTag

(* for email in emails: messages.append({'role': 'user',                   *)
(*                                       'content': tag + email['body']})  *)
RECURSIVE ParseMessages(_, _)
ParseMessages(realtor_email, emails) ==
    IF emails = <<>> THEN <<>>
    ELSE Append(ParseMessages(realtor_email, SubSeq(emails, 1, Len(emails) - 1)),
                [role |-> "user",
                 content |-> Tag(emails[Len(emails)].sender, realtor_email)
                             \o emails[Len(emails)].body])

\* the addresses and bodies the normalizer is run on
NormalizerAddresses == {RegisteredEmail, <<"A", "@", "x">>, <<"b", "@", "y">>}
NormalizerBodies == {<<>>, <<"h", "i">>, <<"R", "E", ":", " ">>}

NormalizerEmails ==
    {Message(a, b, 0) : a \in NormalizerAddresses, b \in NormalizerBodies}

\* one call of parse_messages(realtor_email, emails)
Normalize ==
    /\ pc = "normalize"
    /\ parsedMessages' = ParseMessages(accountEmail, chain)
    /\ pc' = "normalized"
    /\ UNCHANGED <<accountEmail, limiter, now, event, chain, attempt, scoreResps,
                   scorePayloads, evScore, tokenUsage, flagResps, flagDecision,
                   flagUsage, log, thread, conversation, invocations, rlAws,
                   rlAi, limits, result, response>>

-----------------------------------------------------------------------------
(* Specifications *)

\* the counter items an account can have when an invocation starts
CounterItems == {NoItem} \cup {Item(n, t) : n \in 1..MaxLimit, t \in {WindowSeconds}}

Fresh ==
    /\ now = 0
    /\ event = NoEvent
    /\ attempt = 0
    /\ scoreResps = <<>>
    /\ scorePayloads = <<>>
    /\ evScore = 0
    /\ tokenUsage = ZeroUsage
    /\ flagResps = <<>>
    /\ flagDecision = FALSE
    /\ flagUsage = ZeroUsage
    /\ log = <<>>
    /\ thread = [ev_score |-> NoValue, flag |-> FALSE, subject |-> "Re: listing",
                 updated_at |-> NoValue]
    /\ conversation = [ev_score |-> NoValue, body |-> "b1", updated_at |-> NoValue]
    /\ invocations = <<>>
    /\ rlAws = NoItem
    /\ result = NoResult
    /\ response = NoResponse
    /\ parsedMessages = <<>>

\* one invocation of lambda_handler
Init ==
    /\ Fresh
    /\ pc = "idle"
    /\ limiter = NoLimiter
    /\ accountEmail \in AccountEmails
    /\ chain = <<>>
    /\ rlAi \in CounterItems
    /\ limits \in [rl_aws : {MaxLimit}, rl_ai : 0..MaxLimit]

Next ==
    \/ Invoke
    \/ Authorize
    \/ CheckAwsRateLimit
    \/ FetchChain
    \/ ScoreAttempt(PipelineScoreResponses)
    \/ ScoreReturn
    \/ FlagCall(PipelineFlagResponses)
    \/ FlagReturn
    \/ UpdateThreadEv
    \/ UpdateConversationEv
    \/ RecordEv
    \/ RecordFlag
    \/ Respond

Spec == Init /\ [][Next]_vars

(* An invocation that has not returned takes its next step: every call the *)
(* handler makes returns or raises.                                        *)
SpecLive == Spec /\ WF_vars(Next)

\* the conversations the two clients are called with on their own
ClientChains ==
    {<<Message("buyer@y.com", "b2", 2)>>,
     <<Message("realtor@x.com", "b1", 1), Message("buyer@y.com", "b2", 2)>>}

\* one call of calc_ev, on any answers of the provider
InitScore ==
    /\ Fresh
    /\ pc = "score"
    /\ limiter = NoLimiter
    /\ accountEmail = RegisteredEmail
    /\ chain \in ClientChains
    /\ rlAi = NoItem
    /\ limits = [rl_aws |-> MaxLimit, rl_ai |-> MaxLimit]

NextScore == ScoreAttempt(ScoreResponses)

SpecScore == InitScore /\ [][NextScore]_vars

\* one call of invoke_flag_llm, on any counter, limit and answer of the provider
InitFlag ==
    /\ Fresh
    /\ pc = "flag"
    /\ limiter = NoLimiter
    /\ accountEmail = RegisteredEmail
    /\ chain \in ClientChains
    /\ rlAi \in CounterItems
    /\ limits \in [rl_aws : {MaxLimit}, rl_ai : 0..MaxLimit]

NextFlag == FlagCall(FlagResponses)

SpecFlag == InitFlag /\ [][NextFlag]_vars

\* one call of parse_messages, on any account email and any messages
InitNormalizer ==
    /\ Fresh
    /\ pc = "normalize"
    /\ limiter = NoLimiter
    /\ accountEmail \in NormalizerAddresses
    /\ chain \in SeqsUpTo(NormalizerEmails, MaxChain)
    /\ rlAi = NoItem
    /\ limits = [rl_aws |-> MaxLimit, rl_ai |-> MaxLimit]

NextNormalizer == Normalize

SpecNormalizer == InitNormalizer /\ [][NextNormalizer]_vars

\* the records written for one conversation, by one invocation after another
InitRecords ==
    /\ Fresh
    /\ pc = "records"
    /\ limiter = NoLimiter
    /\ accountEmail = RegisteredEmail
    /\ chain = <<>>
    /\ rlAi = NoItem
    /\ limits = [rl_aws |-> MaxLimit, rl_ai |-> MaxLimit]

NextRecords ==
    \/ StoreAiInvocation
    \/ Tick

SpecRecords == InitRecords /\ [][NextRecords]_vars

\* admission attempts of concurrent invocations on one counter of one account
InitLimiter ==
    /\ Fresh
    /\ pc = "limiter"
    /\ accountEmail = RegisteredEmail
    /\ chain = <<>>
    /\ rlAi = NoItem
    /\ \E k \in Kinds, n \in 0..MaxLimit :
        /\ limiter = [NoLimiter EXCEPT !.kind = k]
        /\ limits = IF k = "aws" THEN [rl_aws |-> n, rl_ai |-> MaxLimit]
                    ELSE [rl_aws |-> MaxLimit, rl_ai |-> n]

NextLimiter ==
    \/ \E w \in Workers : ReadCounter(w)
    \/ \E w \in Workers : WriteCounter(w)
    \/ Tick
    \/ ExpireItem

SpecLimiter == InitLimiter /\ [][NextLimiter]_vars

-----------------------------------------------------------------------------
(* Properties *)

Logged(e) == \E i \in 1..Len(log) : log[i] = e
LoggedBefore(e, i) == \E j \in 1..(i - 1) : log[j] = e
Count(e) == Cardinality({i \in 1..Len(log) : log[i] = e})

LlmRequests == {"score_req", "flag_req"}
AiAdmissions == {"ai_admit", "ai_deny"}
PersistWrites == {"thread_write", "conversation_write"}

\* an answer that is no HTTP 200 with a readable completion text
TransportFailure(r) ==
    \/ r.kind = "exception"
    \/ r.status # 200
    \/ r.kind \in {"badjson", "nochoices", "badchoices"}

\* an answer with status 200 and a completion that is no run of 1-3 digits
Unparseable(r) ==
    /\ ~TransportFailure(r)
    /\ LET t == Strip(r.content)
       IN  ~(Len(t) \in 1..3 /\ \A i \in 1..Len(t) : t[i] \in Digits)

\* an answer with status 200 and a completion that is a run of 1-3 digits
Parseable(r) == ~TransportFailure(r) /\ ~Unparseable(r)

EmptyFetch ==
    /\ Logged("fetch")
    /\ chain = <<>>
    /\ pc \in {"respond", "done"}

C4_Expected(r) ==
    LET t == Strip(r.content)
        v == ParseInt(t)
    IN  CASE t = <<"0">> -> 0
          [] t = <<"1", "0", "0">> -> 100
          [] t = <<"1", "5", "0">> -> 100
          [] OTHER -> IF v > 100 THEN 100 ELSE IF v < 0 THEN 0 ELSE v

C5_TwoUnparseableGiveNoParse ==
    (Len(scoreResps) >= 2 /\ Unparseable(scoreResps[1]) /\ Unparseable(scoreResps[2])) =>
        /\ pc = "score_ret"
        /\ Len(scorePayloads) = 2
        /\ Count("score_req") = 2
        /\ scorePayloads[1] = scorePayloads[2]
        /\ scorePayloads[1].messages = <<"score_system_prompt">> \o chain
        /\ evScore = -2

C5_Witness ==
    /\ pc = "score_ret"
    /\ Len(scoreResps) = 2
    /\ scoreResps[1].content = <<"N", "/", "A">>
    /\ scoreResps[2].content = <<"N", "/", "A">>
    /\ evScore = -2

(* C6: when the first answer has a status other than 200, calc_ev returns  *)
(* -3 and has sent one request only.                                       *)
C6_Non200GivesCallFailed ==
    (scoreResps # <<>> /\ scoreResps[1].kind # "exception" /\ scoreResps[1].status # 200) =>
        /\ pc = "score_ret"
        /\ evScore = -3
        /\ Len(scorePayloads) = 1
        /\ Count("score_req") = 1
        /\ tokenUsage = ZeroUsage

C6_Witness ==
    /\ pc = "score_ret"
    /\ Len(scoreResps) = 1
    /\ scoreResps[1].status = 204
    /\ evScore = -3

FlagCallFailed ==
    \/ Logged("ai_deny")
    \/ flagResps # <<>> /\ TransportFailure(flagResps[1])

FlagTexts ==
    {p \o w \o q : p \in Pads, q \in Pads, w \in FlagCases}

C10_FailureGivesFalse ==
    /\ Len(flagResps) <= 1
    /\ Count("flag_req") = Len(flagResps)
    /\ (flagResps # <<>> /\ TransportFailure(flagResps[1])) =>
          /\ pc = "flag_ret"
          /\ flagDecision = FALSE
          /\ flagUsage = ZeroUsage
          /\ ~Logged("inv_flag")

C10_Witness ==
    /\ pc = "flag_ret"
    /\ flagResps # <<>>
    /\ flagResps[1].kind = "ok"
    /\ flagResps[1].status = 204
    /\ flagDecision = FALSE
    /\ flagUsage = ZeroUsage

-----------------------------------------------------------------------------
(* Rate limiter as a counter under concurrent attempts (SpecLimiter) *)

Att(w) == limiter.att[w]
Win == limiter.win
Row == Counter(limiter.kind)
Quota == LimitOf(limiter.kind)

\* an attempt that ended, made in a window whose attempts did not overlap
\* and met no storage failure, before the window's expiry
OneAtATime(a) ==
    /\ a.pc = "done"
    /\ ~Win.overlapped
    /\ ~Win.faulted
    /\ ~a.crossed
    /\ ~a.late

(* C11: for every limit n >= 0 and either quota kind, when the attempts    *)
(* for one account are made one at a time within one 60-second window,     *)
(* the (n+1)-th attempt is denied, the attempt that creates the counter    *)
(* item counting as the first.                                             *)
C11_AttemptAfterLimitDenied ==
    pc = "limiter" =>
        \A w \in Workers :
            OneAtATime(Att(w)) /\ Att(w).no = Quota + 1
                => Att(w).outcome = "denied"

(* C12: an attempt issued after the counter's expiry time has passed is    *)
(* admitted and resets the count to 1 with a new expiry, whatever count    *)
(* the expired window reached.                                             *)
C12_LateAttemptResets ==
    pc = "limiter" =>
        \A w \in Workers :
            LET a == Att(w)
            IN  /\ a.pc = "done"
                /\ a.late
                /\ a.outcome # "error"
                /\ ~Win.overlapped
                /\ a.no = Win.attempts
                => /\ a.outcome = "admitted"
                   /\ Row.exists
                   /\ Row.invocations = 1
                   /\ Row.ttl > now

NotDecreased(row, nextRow) ==
    row.exists /\ nextRow.exists /\ ~Expired(row, now)
        => nextRow.invocations >= row.invocations

(* C13: the count of a counter never decreases from one state to the next  *)
(* within one window, for every interleaving of the attempts' reads and    *)
(* writes.                                                                 *)
C13_CountNeverDecreases ==
    [][NotDecreased(rlAws, rlAws') /\ NotDecreased(rlAi, rlAi')]_vars

\* the last two attempts of the window both updated from the count limit - 1,
\* and every write of the window is by an attempt that read in it
BothReadStale(w, v) ==
    /\ w # v
    /\ \A u \in {w, v} :
        /\ Att(u).pc = "done"
        /\ Att(u).op = "update"
        /\ Att(u).current = Quota - 1
        /\ Att(u).outcome # "error"
        /\ ~Att(u).crossed
        /\ Att(u).no >= Win.attempts - 1
    /\ ~Win.carried

(* C14: admission attempts for one account are not mutually exclusive:     *)
(* two concurrent attempts that both read the count limit - 1 are both     *)
(* admitted, so the admissions of the window exceed the limit while the    *)
(* stored count does not.                                                  *)
C14_StaleReadsOvershoot ==
    pc = "limiter" =>
        \A w, v \in Workers :
            BothReadStale(w, v)
                => /\ Att(w).outcome = "admitted"
                   /\ Att(v).outcome = "admitted"
                   /\ Win.admitted > Quota
                   /\ Row.exists
                   /\ Row.invocations <= Quota

C14_Witness ==
    /\ pc = "limiter"
    /\ \E w, v \in Workers : BothReadStale(w, v)
    /\ Win.admitted = Quota + 1
    /\ Row.invocations = Quota

-----------------------------------------------------------------------------
(* Persistence, usage records and the entry point's answers (Spec) *)

FailedWrites ==
    {"thread_write_failed", "conversation_write_failed",
     "inv_ev_calculation_failed", "inv_flag_failed"}

AllWritesSucceeded == \A e \in FailedWrites : ~Logged(e)

Succeeded == pc = "done" /\ response.statusCode = 200

AfterPersist ==
    LET i == CHOOSE j \in 1..Len(log) : log[j] = "conversation_write"
    IN  SubSeq(log, i + 1, Len(log))

FieldAbsent(e) ==
    \E f \in {"conversation_id", "account_id", "session_id"} : e[f] = ""

ParseFailure == ErrorResponse(500, "Failed to parse event.")

(* C20: when conversation_id, account_id or session_id of the parsed event *)
(* is missing or empty, the entry point answers 400 with status "error"    *)
(* and has made no authorization call, no rate-limit admission, no LLM     *)
(* request and no storage write.                                           *)
C20_MissingFieldsRejected ==
    pc # "idle" /\ FieldAbsent(event) /\ response # ParseFailure =>
        /\ pc = "done"
        /\ response.statusCode = 400
        /\ response.status = "error"
        /\ log = <<>>
        /\ invocations = <<>>
        /\ thread.ev_score = NoValue
        /\ conversation.ev_score = NoValue

C20_Witness ==
    /\ pc = "done"
    /\ event.conversation_id = "c1"
    /\ event.account_id = "a1"
    /\ event.session_id = ""
    /\ response.statusCode = 400
    /\ log = <<>>

-----------------------------------------------------------------------------
(* Authorization and the general rate limit (Spec) *)

Writes ==
    {"thread_write", "conversation_write", "inv_ev_calculation", "inv_flag"}

NothingWritten ==
    /\ \A e \in Writes : ~Logged(e)
    /\ invocations = <<>>
    /\ thread.ev_score = NoValue
    /\ conversation.ev_score = NoValue

(* C21: when the authorization service denies the pair (account_id,        *)
(* session_id), the entry point answers 401 with status "error", and the   *)
(* invocation makes no rate-limit check, LLM request or storage write.     *)
C21_DenialAnswers401 ==
    Logged("authorize_denied") =>
        /\ pc = "done"
        /\ response.statusCode = 401
        /\ response.status = "error"
        /\ \A e \in LlmRequests \cup AiAdmissions \cup {"aws_check"} : ~Logged(e)
        /\ NothingWritten

(* C22: when the general-operation rate-limit check denies the account,    *)
(* the entry point answers 429 with status "error" and the pipeline is not *)
(* run: no fetch, no LLM request, no Thread or Conversation write and no   *)
(* invocation record.                                                      *)
C22_AwsDenialAnswers429 ==
    Logged("aws_denied") =>
        /\ pc = "done"
        /\ response.statusCode = 429
        /\ response.status = "error"
        /\ \A e \in LlmRequests \cup AiAdmissions \cup {"fetch"} : ~Logged(e)
        /\ NothingWritten

C22_Witness ==
    /\ pc = "done"
    /\ log = <<"authorize", "aws_check", "aws_denied">>
    /\ response = ErrorResponse(429, "Rate limit exceeded")

(* C25: authorization is invoked exactly once, before everything else,     *)
(* when session_id differs from the bypass token, and not at all when it   *)
(* equals it; with the bypass token the rate-limit check and the pipeline  *)
(* still run.                                                              *)
C25_AuthorizeOnceUnlessBypass ==
    pc \notin {"idle", "auth"} /\ ~FieldAbsent(event) =>
        IF event.session_id = AuthBp
        THEN /\ ~Logged("authorize")
             /\ pc = "done" => Logged("aws_check")
             /\ Logged("aws_check") /\ ~Logged("aws_denied")
                    /\ response.statusCode # 429 /\ pc = "done"
                  => Logged("fetch")
        ELSE /\ Count("authorize") = 1
             /\ log[1] = "authorize"

C25_Witness ==
    /\ pc = "done"
    /\ event.session_id = AuthBp
    /\ ~Logged("authorize")
    /\ Logged("aws_check")
    /\ Logged("thread_write")
    /\ response.statusCode = 200

-----------------------------------------------------------------------------
(* Termination of the entry point (SpecLive) *)

StatusCodes == {200, 400, 401, 429, 500}

Structured(r) ==
    /\ r.status \in {"success", "error"}
    /\ r.statusCode \in StatusCodes

-----------------------------------------------------------------------------
(* The normalizer (SpecNormalizer) *)

Normalized == pc = "normalized"

\* the last n characters of s
Suffix(s, n) == SubSeq(s, Len(s) - n + 1, Len(s))

(* C24: parse_messages returns one {role: "user", content} item for each   *)
(* input message, in the order of the input; the content is "REALTOR: "    *)
(* followed by the whole body when the sender is the account email,        *)
(* character for character, and "BUYER: " followed by the whole body       *)
(* otherwise.                                                              *)
C24_OneTaggedItemPerMessage ==
    Normalized =>
        /\ Len(parsedMessages) = Len(chain)
        /\ \A i \in 1..Len(chain) :
            LET item == parsedMessages[i]
                prefix == IF chain[i].sender = accountEmail
                          THEN RealtorTag ELSE BuyerTag
            IN  /\ DOMAIN item = {"role", "content"}
                /\ item.role = "user"
                /\ Len(item.content) = Len(prefix) + Len(chain[i].body)
                /\ SubSeq(item.content, 1, Len(prefix)) = prefix
                /\ Suffix(item.content, Len(chain[i].body)) = chain[i].body

\* a realtor's message after a message whose sender differs in case only
C24_Witness ==
    /\ Normalized
    /\ accountEmail = RegisteredEmail
    /\ Len(chain) = 2
    /\ chain[1].sender = <<"A", "@", "x">>
    /\ chain[2].sender = RegisteredEmail
    /\ parsedMessages[1].content = BuyerTag \o chain[1].body
    /\ parsedMessages[2].content = RealtorTag \o chain[2].body
    /\ chain[1].body # chain[2].body

-----------------------------------------------------------------------------
(* The context of a run (Spec) *)

\* the select on Conversations returned, with or without items
Fetched == Logged("fetch") /\ response # ErrorResponse(500, "DB select failed.")

ContextMissing == chain = <<>> \/ accountEmail = NoEmail

-----------------------------------------------------------------------------
(* Side effects of a run (Spec) *)

\* requests sent to the LLM provider so far
RequestsSent == Count("score_req") + Count("flag_req")

(* items written so far: the Thread and Conversation updates, the          *)
(* invocation records of the two clients and of the orchestrator, and the  *)
(* RL_AI counter, which an admission puts or updates                       *)
ItemsWritten ==
    Count("thread_write") + Count("conversation_write")
        + Count("inv_ev_calculation") + Count("inv_flag") + Count("ai_admit")

-----------------------------------------------------------------------------
(* The frame of the two updates (Spec) *)

ThreadFields == {"ev_score", "flag"}
ConversationFields == {"ev_score"}

\* the step changes no attribute of the item but those of the set
OnlyChanges(old, new, fields) ==
    /\ DOMAIN new = DOMAIN old
    /\ \A f \in DOMAIN old \ fields : new[f] = old[f]

-----------------------------------------------------------------------------
(* Invocation records (SpecRecords) *)

Records == InvocationsTable("c1", invocations)

-----------------------------------------------------------------------------
(* Admission on an existing counter item (SpecLimiter) *)

\* the step is worker w's get_item, and it found an item that is not expired
ReadsLiveItem(w) ==
    /\ limiter.att[w].pc \in {"idle", "done"}
    /\ limiter'.att[w] # limiter.att[w]
    /\ limiter'.att[w].op \in {"update", "deny"}
    /\ limiter'.att[w].no = Win.attempts + 1
    /\ ~Expired(Row, now)
    /\ ~limiter'.win.faulted

(* the step is worker w's update_item, it succeeds, and since w's get_item *)
(* no other attempt has written and the item has not expired               *)
UpdatesLiveItem(w) ==
    /\ limiter.att[w].pc = "write"
    /\ limiter.att[w].op = "update"
    /\ limiter'.att[w].outcome = "admitted"
    /\ ~limiter.att[w].late
    /\ ~limiter.att[w].crossed
    /\ Row.exists
    /\ Row.invocations = limiter.att[w].current

(* C30: an attempt that finds an item that is not expired goes on to admit *)
(* exactly when the count is below the limit, and its admission adds one   *)
(* to the count and sets the expiry to one window after the attempt, for   *)
(* the general counter and for the AI counter.                             *)
C30_AdmitIncrementsAndRefreshes ==
    [][\A w \in Workers :
          /\ ReadsLiveItem(w) =>
                (limiter'.att[w].op = "update" <=> Row.invocations < Quota)
          /\ UpdatesLiveItem(w) =>
                /\ Row'.invocations = Row.invocations + 1
                /\ Row'.ttl = limiter.att[w].began + WindowSeconds]_vars

-----------------------------------------------------------------------------
(* Usage records of a run (Spec) *)

StoredRecords == {"inv_ev_calculation", "inv_flag"}

PersistFailed ==
    Logged("thread_write_failed") \/ Logged("conversation_write_failed")

UsageOfCall(kind) == IF kind = "flag" THEN flagUsage ELSE tokenUsage

CarriesUsage(rec, usage) ==
    /\ rec.input_tokens = usage.input_tokens
    /\ rec.output_tokens = usage.output_tokens

-----------------------------------------------------------------------------
(* Denials and failures of an admission attempt (SpecLimiter) *)

\* the step is worker w's get_item, and it found an item whose count has
\* reached the limit
ReadsFullItem(w) ==
    /\ limiter.att[w].pc \in {"idle", "done"}
    /\ limiter'.att[w] # limiter.att[w]
    /\ limiter'.att[w].no = Win.attempts + 1
    /\ limiter'.att[w].op # "error"
    /\ Row.exists
    /\ Row.invocations >= Quota

(* C33: an attempt that finds an item whose count has reached the limit is *)
(* denied and ends without a write: the item's count and expiry stay as    *)
(* they are; and no step of an attempt on one counter changes the other    *)
(* counter.                                                                *)
C33_DenialWritesNothing ==
    [][/\ \A w \in Workers :
            ReadsFullItem(w) =>
                /\ limiter'.att[w].pc = "done"
                /\ limiter'.att[w].outcome = "denied"
                /\ rlAws' = rlAws
                /\ rlAi' = rlAi
       /\ limiter.kind = "aws" => rlAi' = rlAi
       /\ limiter.kind = "ai" => rlAws' = rlAws]_vars

C33_Witness ==
    \E w \in Workers :
        /\ Att(w).pc = "done"
        /\ Att(w).outcome = "denied"
        /\ Quota > 0
        /\ Row = Item(Quota, WindowSeconds)
        /\ Win.admitted = Quota
        /\ ~Win.faulted

(* C34: an attempt one of whose storage calls raises (the read of the      *)
(* account's limits, the read of the counter or the write of the counter)  *)
(* is not admitted.                                                        *)
C34_StorageErrorDenies ==
    \A w \in Workers :
        Att(w).fault /\ Att(w).pc = "done" => Att(w).outcome \in {"denied", "error"}

=============================================================================
